---- MODULE Spec2Model ----
(***************************************************************************)
(* A model of bbbchatofx.cpp: the chat message store, the renderer         *)
(* (ChatMessageRenderer) and the OpenFX instance that drives it from       *)
(* several host threads under one recursive mutex.                         *)
(*                                                                         *)
(* Times are integers counting ticks of 1/TicksPerSec second; an opacity   *)
(* is an exact fraction [n, d] with d > 0; a colour channel is an integer  *)
(* counting 1/ColorScale.  Rounding of IEEE doubles is not modelled, and   *)
(* timestamps are finite numbers.                                          *)
(***************************************************************************)
EXTENDS Integers, Sequences, FiniteSets, TLC

(* ------------------------------------------------------------------ *)
(* Bounds of the model                                                *)
(* ------------------------------------------------------------------ *)
MaxTime == 5
MaxStamp == 3
MaxMsgs == 3
NumThreads == 2
LongFade == 256
MaxDur == 2

(* ------------------------------------------------------------------ *)
(* Units and program constants                                        *)
(* ------------------------------------------------------------------ *)
TicksPerSec == 2
ColorScale == 1000
DefaultWidth == 640
DefaultHeight == 360
DefaultMargin == 10
DefaultFadeInSec == 1
DefaultHoldSec == 15
DefaultFadeOutSec == 1
AlphaSkipDen == 255
LineHeight == 20

DefaultColorBg == <<500, 500, 500, 500>>
DefaultColorUser == <<628, 0, 0>>
DefaultColorText == <<0, 0, 0>>

(* a null pointer or empty handle *)
NULL == [null |-> TRUE]
Threads == 1..NumThreads
(* the one caller of SpecCmr, SpecQuery and SpecAlpha *)
Caller == CHOOSE t \in Threads : \A u \in Threads : t <= u

(* ------------------------------------------------------------------ *)
(* Fractions                                                          *)
(* ------------------------------------------------------------------ *)
Frac(n, d) == [n |-> n, d |-> d]
FracLE(a, b) == a.n * b.d <= b.n * a.d
FracLT(a, b) == a.n * b.d < b.n * a.d
FracEQ(a, b) == a.n * b.d = b.n * a.d
Zero == Frac(0, 1)
One == Frac(1, 1)

(* (int) x : truncation toward zero of n/d, d > 0 *)
Trunc(n, d) == IF n >= 0 THEN n \div d ELSE -((-n) \div d)

(* ------------------------------------------------------------------ *)
(* ChatMessage                                                        *)
(* ------------------------------------------------------------------ *)
ChatMessage(time, user, text) == [time |-> time, user |-> user, text |-> text]

(* bool ChatMessage::operator < (ChatMessage const &other) *)
MsgLess(a, b) == a.time < b.time
(* bool operator < (ChatMessage const &msg, double time) *)
MsgLessTime(msg, time) == msg.time < time
(* bool operator < (double time, ChatMessage const &msg) *)
TimeLessMsg(time, msg) == time < msg.time

IsSorted(s) == \A i \in 1..(Len(s) - 1) : ~MsgLess(s[i + 1], s[i])

IndexPerms(n) == {p \in [1..n -> 1..n] : \A i, j \in 1..n : i # j => p[i] # p[j]}

(* sort(rv.begin(), rv.end()) without the call: rv is returned in file order *)
SortSkipped(rv) == {rv}

(* sort(rv.begin(), rv.end()): std::sort is not stable, so any permutation  *)
(* of rv that is ordered by operator < may come out.                        *)
Sort(rv) ==
    {s \in {[i \in 1..Len(rv) |-> rv[p[i]]] : p \in IndexPerms(Len(rv))} : IsSorted(s)}

(* ------------------------------------------------------------------ *)
(* The chat log file, as pugixml reads it                             *)
(*   status "missing"   : load_file finds no file, the document is    *)
(*                        empty                                       *)
(*   status "ok"        : the whole document parsed                   *)
(*   status "malformed" : parsing stopped at an error; the document   *)
(*                        keeps the children parsed before it         *)
(* An "in" attribute [val, junk] is text whose numeric prefix reads   *)
(* val (0 when there is none) followed, when junk, by characters that *)
(* are no part of a number.                                           *)
(* ------------------------------------------------------------------ *)
Attr(val, junk) == [val |-> val, junk |-> junk]
Node(in, name, message) == [in |-> in, name |-> name, message |-> message]
File(status, nodes) == [status |-> status, nodes |-> nodes]
MissingFile == File("missing", <<>>)

(* xml_attribute::as_double(): strtod of the text; never throws *)
AsDouble(attr) == attr.val

(* doc.load_file(filename); doc.root().child("popcorn").children() :   *)
(* the result of load_file is discarded, the tree is walked as it is.  *)
LoadedChildren(file) == IF file.status = "missing" THEN <<>> ELSE file.nodes

(* the loop of loadFromFile: one ChatMessage per child, in file order *)
ParseNodes(nodes) ==
    [i \in 1..Len(nodes) |->
        ChatMessage(AsDouble(nodes[i].in), nodes[i].name, nodes[i].message)]

(* ChatMessage::loadFromFile: the vectors it may return *)
loadFromFile(file) == Sort(ParseNodes(LoadedChildren(file)))

(* A source that fails to parse: missing, malformed, or a malformed timestamp *)
FailsToParse(file) ==
    \/ file.status # "ok"
    \/ \E i \in 1..Len(file.nodes) : file.nodes[i].in.junk

(* ------------------------------------------------------------------ *)
(* std::lower_bound / std::upper_bound over m_messages[first..last)   *)
(* (1-based index; len elements starting at first)                    *)
(* ------------------------------------------------------------------ *)
RECURSIVE LowerBoundFrom(_, _, _, _)
LowerBoundFrom(s, first, len, val) ==
    IF len <= 0 THEN first
    ELSE LET half == len \div 2
             mid == first + half
         IN IF MsgLessTime(s[mid], val)
            THEN LowerBoundFrom(s, mid + 1, len - half - 1, val)
            ELSE LowerBoundFrom(s, first, half, val)

RECURSIVE UpperBoundFrom(_, _, _, _)
UpperBoundFrom(s, first, len, val) ==
    IF len <= 0 THEN first
    ELSE LET half == len \div 2
             mid == first + half
         IN IF TimeLessMsg(val, s[mid])
            THEN UpperBoundFrom(s, first, half, val)
            ELSE UpperBoundFrom(s, mid + 1, len - half - 1, val)

(* double time_lo = time - (fade_in + hold + fade_out) *)
TimeLo(time, fi, hold, fo) == time - (fi + hold + fo)

(* first: an upper bound in place of the lower bound *)
ActiveFirstStrict(s, time, fi, hold, fo) ==
    UpperBoundFrom(s, 1, Len(s), TimeLo(time, fi, hold, fo))
(* const auto first = std::lower_bound(begin, end, time_lo) *)
ActiveFirst(s, time, fi, hold, fo) ==
    LowerBoundFrom(s, 1, Len(s), TimeLo(time, fi, hold, fo))

(* last: the end of the sequence in place of the upper bound *)
ActiveLastToEnd(s, first, time) == Len(s) + 1
(* const auto last = std::upper_bound(first, end, time_hi), time_hi = time *)
ActiveLast(s, first, time) == UpperBoundFrom(s, first, Len(s) + 1 - first, time)

(* ------------------------------------------------------------------ *)
(* drawMessage: the alpha and progress of one message                 *)
(* ------------------------------------------------------------------ *)
(* the fade-out ramp without its "1.0 -" *)
AlphaFadeOutRising(t0, time, fi, hold, fo) ==
    LET t_hold == t0 + fi
        t_fout == t0 + fi + hold
    IN IF time < t_hold THEN Frac(time - t0, fi)
       ELSE IF time > t_fout THEN Frac(time - t_fout, fo)
       ELSE One

Alpha(t0, time, fi, hold, fo) ==
    LET t_hold == t0 + fi
        t_fout == t0 + fi + hold
    IN IF time < t_hold THEN Frac(time - t0, fi)
       ELSE IF time > t_fout THEN Frac(fo - (time - t_fout), fo)
       ELSE One

(* progress = alpha in every phase, the fade-out included *)
ProgressIsAlpha(t0, time, fi, hold, fo) == Alpha(t0, time, fi, hold, fo)
(* progress = 1.0; if (time < t_hold) progress = alpha *)
Progress(t0, time, fi, hold, fo) ==
    IF time < t0 + fi THEN Frac(time - t0, fi) ELSE One

(* if (alpha <= 1 / 255.0) with the test dropped *)
TooTransparentNever(alpha) == FALSE
(* if (alpha <= 1 / 255.0) *)
TooTransparent(alpha) == AlphaSkipDen * alpha.n <= alpha.d

(* m_layout->get_size: the pixel height of the shaped text; msg.text is *)
(* the number of lines the text wraps to                                *)
LayoutHeight(msg) == msg.text * LineHeight
(* (int)round(th) for th = n/d, d > 0: halves round away from zero *)
Round(n, d) ==
    IF n >= 0 THEN (2 * n + d) \div (2 * d) ELSE -((2 * (-n) + d) \div (2 * d))

(* ------------------------------------------------------------------ *)
(* State                                                              *)
(* ------------------------------------------------------------------ *)
VARIABLES
    m_messages,       \* std::vector<ChatMessage>
    m_surface,        \* NULL or [w, h, pix]: pix is the set of painted bubbles
    m_context,        \* NULL or [tx, ty]: the translation of the context
    m_layout,         \* NULL or [width, height]
    m_width, m_height, m_margin,
    m_color_bg, m_color_user, m_color_text,
    m_fade_in_time, m_hold_time, m_fade_out_time,
    mutex,            \* the std::recursive_mutex of the instance: [owner, count]
    needReconfig,     \* InstanceData::needReconfig
    params,           \* the host's parameter values
    pc,               \* the place of each host thread in the plugin's code
    frame,            \* the locals of the call each thread is in
    out,              \* the output image each thread holds in effectRender
    status,           \* the status a finished call hands back
    probe             \* the alpha curve sampled on its own (see AlphaNext)

gfx == <<m_surface, m_context, m_layout>>
dims == <<m_width, m_height, m_margin>>
colors == <<m_color_bg, m_color_user, m_color_text>>
timing == <<m_fade_in_time, m_hold_time, m_fade_out_time>>
cmr == <<m_messages, gfx, dims, colors, timing>>
host == <<mutex, needReconfig, params>>
calls == <<pc, frame, out, status>>
vars == <<cmr, host, calls, probe>>
NoFrame ==
    [time |-> 0, first |-> 0, last |-> 0, i |-> 0, th |-> 0,
     ret |-> 0, reused |-> FALSE, drawn |-> NULL, data |-> 0, file |-> NULL,
     raised |-> "none", action |-> "none"]

(* ------------------------------------------------------------------ *)
(* Input sets                                                         *)
(* ------------------------------------------------------------------ *)
Times == 0..MaxTime
Stamps == 0..MaxStamp
Widths == {DefaultWidth, 800}
Heights == {DefaultHeight, 480}
Margins == {DefaultMargin, 20}
BgColors == {DefaultColorBg, <<0, 0, 0, 1000>>}
UserColors == {DefaultColorUser, <<0, 0, 1000>>}
TextColors == {DefaultColorText, <<1000, 1000, 1000>>}
Durations == 1..MaxDur
FadeInTimes == Durations \cup {DefaultFadeInSec * TicksPerSec, LongFade}
HoldTimes == {0} \cup Durations \cup {DefaultHoldSec * TicksPerSec}
FadeOutTimes == Durations \cup {DefaultFadeOutSec * TicksPerSec}
(* for the surface life cycle: the default and one other value *)
FadeInPair == {DefaultFadeInSec * TicksPerSec, LongFade}
HoldPair == {DefaultHoldSec * TicksPerSec, 0}
FadeOutPair == {DefaultFadeOutSec * TicksPerSec, 1}

RECURSIVE SeqsUpTo(_, _)
SeqsUpTo(S, n) ==
    IF n = 0 THEN {<<>>}
    ELSE LET shorter == SeqsUpTo(S, n - 1)
         IN shorter \cup {Append(s, x) : s \in shorter, x \in S}

(* well-formed logs: every sequence of at most MaxMsgs entries *)
GoodNodes == {Node(Attr(v, FALSE), "a", 1) : v \in Stamps}
GoodFiles == {File("ok", nodes) : nodes \in SeqsUpTo(GoodNodes, MaxMsgs)}
(* for the surface life cycle: logs of at most one entry *)
ShortFiles == {File("ok", nodes) : nodes \in SeqsUpTo(GoodNodes, 1)}

(* ------------------------------------------------------------------ *)
(* ChatMessageRenderer                                                *)
(* ------------------------------------------------------------------ *)
(* void drawRelease() *)
DrawRelease ==
    /\ m_layout' = NULL
    /\ m_context' = NULL
    /\ m_surface' = NULL

(* void setWidth(int width) *)
SetWidth(width) ==
    IF m_width # width
    THEN m_width' = width /\ DrawRelease
    ELSE UNCHANGED <<m_width, gfx>>

(* setHeight without the release *)
SetHeightKeepsSurface(height) == m_height' = height /\ UNCHANGED gfx
(* void setHeight(int height) *)
SetHeight(height) ==
    IF m_height # height
    THEN m_height' = height /\ DrawRelease
    ELSE UNCHANGED <<m_height, gfx>>

(* setMargin without the release *)
SetMarginKeepsSurface(margin) == m_margin' = margin /\ UNCHANGED gfx
(* void setMargin(int margin) *)
SetMargin(margin) ==
    IF m_margin # margin
    THEN m_margin' = margin /\ DrawRelease
    ELSE UNCHANGED <<m_margin, gfx>>

SetColorBackground(c) == m_color_bg' = c
SetColorUser(c) == m_color_user' = c
SetColorText(c) == m_color_text' = c
SetFadeInTime(t) == m_fade_in_time' = t
SetHoldTime(t) == m_hold_time' = t
SetFadeOutTime(t) == m_fade_out_time' = t

(* void setMessages(const std::vector<ChatMessage> &messages) *)
SetMessages(messages) == m_messages' = messages

(* drawInit with the clearing branch left out *)
DrawInitSurfaceNoClear ==
    IF m_surface = NULL
    THEN [w |-> m_width, h |-> m_height, pix |-> {}]
    ELSE m_surface
(* drawInit: the surface it leaves *)
DrawInitSurface ==
    IF m_surface = NULL
    THEN [w |-> m_width, h |-> m_height, pix |-> {}]
    ELSE [m_surface EXCEPT !.pix = {}]

(* drawInit: the layout it leaves *)
DrawInitLayout ==
    IF m_surface = NULL
    THEN [width |-> m_width - 2 * m_margin, height |-> m_height - 2 * m_margin]
    ELSE m_layout

(* if (active_messages.empty()) return 0; with the test dropped *)
NothingToRenderIgnored(first, last) == FALSE
(* if (active_messages.empty()) *)
NothingToRender(first, last) == first = last

(* what can be thrown out of a handler: std::bad_alloc, or another    *)
(* std::exception (the errors cairomm reports other than no-memory)   *)
Exceptions == {"bad_alloc", "exception"}

(* ofxMain with one catch-all clause that reports kOfxStatErrUnknown *)
ofxMainCatchAll(ex) == "ErrUnknown"
(* ofxMain: the status each catch clause returns *)
ofxMainCatch(ex) ==
    IF ex = "bad_alloc" THEN "ErrMemory" ELSE "ErrUnknown"

(* an exception leaves the handler and is caught in ofxMain: the thread *)
(* is back in the host with the status of the catch clause              *)
Throw(t, ex) ==
    /\ pc' = [pc EXCEPT ![t] = "done"]
    /\ frame' = [frame EXCEPT ![t] = [NoFrame EXCEPT !.raised = ex,
                                                     !.action = frame[t].action]]
    /\ status' = [status EXCEPT ![t] = ofxMainCatch(ex)]
    /\ UNCHANGED out

(* bound on the depth a leaked lock of the recursive mutex can reach *)
MaxLockCount == 2

(* render(time): from its entry to the first message, or to return 0 *)
RenderBegin(t, time) ==
    /\ LET first == ActiveFirst(m_messages, time, m_fade_in_time, m_hold_time,
                                m_fade_out_time)
           last == ActiveLast(m_messages, first, time)
       IN IF NothingToRender(first, last)
          THEN /\ pc' = [pc EXCEPT ![t] = "rn_ret"]
               /\ frame' = [frame EXCEPT ![t].time = time, ![t].first = first,
                                          ![t].last = last, ![t].ret = 0]
               /\ UNCHANGED <<gfx, status, out>>
          ELSE \/ /\ m_surface' = DrawInitSurface
                  /\ m_layout' = DrawInitLayout
                  /\ m_context' = [tx |-> m_margin, ty |-> 0]
                  /\ pc' = [pc EXCEPT ![t] = "rn_draw"]
                  /\ frame' = [frame EXCEPT
                        ![t].time = time,
                        ![t].first = first, ![t].last = last, ![t].i = first,
                        ![t].th = 0,
                        ![t].reused = (m_surface # NULL /\ m_surface.pix # {})]
                  /\ UNCHANGED <<status, out>>
               \/ (* Cairo::ImageSurface::create throws *)
                  /\ m_surface = NULL
                  /\ mutex.count < MaxLockCount
                  /\ \E ex \in Exceptions : Throw(t, ex)
                  /\ UNCHANGED gfx
    /\ UNCHANGED <<m_messages, dims, colors, timing, host, probe>>

(* render(): one turn of the loop, drawMessage and the translate after it *)
RenderDraw(t) ==
    /\ pc[t] = "rn_draw"
    /\ frame[t].i < frame[t].last
    /\ LET f == frame[t]
           msg == m_messages[f.i]
           alpha == Alpha(msg.time, f.time, m_fade_in_time, m_hold_time,
                          m_fade_out_time)
           p == Progress(msg.time, f.time, m_fade_in_time, m_hold_time,
                         m_fade_out_time)
           skip == TooTransparent(alpha)
           text_height == LayoutHeight(msg)
           h == IF skip THEN 0 ELSE text_height + 3 * m_margin
           args == [bg |-> Frac(m_color_bg[4] * alpha.n, ColorScale * alpha.d),
                    bg_rgb |-> SubSeq(m_color_bg, 1, 3),
                    user |-> Trunc(alpha.n * 255, alpha.d),
                    user_rgb |-> [k \in 1..3 |-> Trunc(m_color_user[k] * 255, ColorScale)],
                    text |-> alpha,
                    text_rgb |-> m_color_text]
       IN /\ m_surface' =
                IF skip THEN m_surface
                ELSE [m_surface EXCEPT !.pix = @ \cup
                        {[y |-> m_context.ty, h |-> text_height + 2 * m_margin]}]
          /\ m_context' = [m_context EXCEPT !.ty = @ + h]
          /\ frame' = [frame EXCEPT
                ![t].i = f.i + 1,
                ![t].th = f.th + p.n * (m_fade_in_time \div p.d) * h,
                ![t].drawn = IF skip THEN NULL ELSE args]
    /\ UNCHANGED <<m_messages, m_layout, dims, colors, timing, host, pc, out,
                   status, probe>>

(* render(): m_surface->flush(); return (int)round(th) *)
RenderFinish(t) ==
    /\ pc[t] = "rn_draw"
    /\ frame[t].i = frame[t].last
    /\ pc' = [pc EXCEPT ![t] = "rn_ret"]
    /\ frame' = [frame EXCEPT ![t].ret = Round(frame[t].th, m_fade_in_time),
                              ![t].i = 0, ![t].th = 0, ![t].drawn = NULL,
                              ![t].reused = FALSE]
    /\ UNCHANGED <<cmr, host, out, status, probe>>
(* ------------------------------------------------------------------ *)
(* The renderer driven by one caller (specification SpecCmr)          *)
(* ------------------------------------------------------------------ *)
CallerIdle == pc[Caller] = "idle"
CmrRest == <<host, calls, probe>>

CallSetWidth ==
    /\ CallerIdle
    /\ \E w \in Widths : SetWidth(w)
    /\ UNCHANGED <<m_messages, m_height, m_margin, colors, timing, CmrRest>>

CallSetHeight ==
    /\ CallerIdle
    /\ \E h \in Heights : SetHeight(h)
    /\ UNCHANGED <<m_messages, m_width, m_margin, colors, timing, CmrRest>>

CallSetMargin ==
    /\ CallerIdle
    /\ \E m \in Margins : SetMargin(m)
    /\ UNCHANGED <<m_messages, m_width, m_height, colors, timing, CmrRest>>

CallSetColorBackground ==
    /\ CallerIdle
    /\ \E c \in BgColors : SetColorBackground(c)
    /\ UNCHANGED <<m_messages, gfx, dims, m_color_user, m_color_text, timing, CmrRest>>

CallSetColorUser ==
    /\ CallerIdle
    /\ \E c \in UserColors : SetColorUser(c)
    /\ UNCHANGED <<m_messages, gfx, dims, m_color_bg, m_color_text, timing, CmrRest>>

CallSetColorText ==
    /\ CallerIdle
    /\ \E c \in TextColors : SetColorText(c)
    /\ UNCHANGED <<m_messages, gfx, dims, m_color_bg, m_color_user, timing, CmrRest>>

CallSetFadeInTime(choices) ==
    /\ CallerIdle
    /\ \E d \in choices : SetFadeInTime(d)
    /\ UNCHANGED <<m_messages, gfx, dims, colors, m_hold_time, m_fade_out_time, CmrRest>>

CallSetHoldTime(choices) ==
    /\ CallerIdle
    /\ \E d \in choices : SetHoldTime(d)
    /\ UNCHANGED <<m_messages, gfx, dims, colors, m_fade_in_time, m_fade_out_time, CmrRest>>

CallSetFadeOutTime(choices) ==
    /\ CallerIdle
    /\ \E d \in choices : SetFadeOutTime(d)
    /\ UNCHANGED <<m_messages, gfx, dims, colors, m_fade_in_time, m_hold_time, CmrRest>>

(* cmr.setMessages(ChatMessage::loadFromFile(file)) *)
CallSetMessages(files) ==
    /\ CallerIdle
    /\ \E file \in files : \E rv \in loadFromFile(file) : SetMessages(rv)
    /\ UNCHANGED <<gfx, dims, colors, timing, CmrRest>>

(* cmr.render(time): the call, for a time of the given set *)
CallRenderAt(times) ==
    /\ CallerIdle
    /\ \E time \in times : RenderBegin(Caller, time)

CallRender == CallRenderAt(Times)

(* cmr.render(time): the return to the caller, by value or by exception *)
CallReturn ==
    /\ pc[Caller] \in {"rn_ret", "done"}
    /\ pc' = [pc EXCEPT ![Caller] = "idle"]
    /\ frame' = [frame EXCEPT ![Caller] = NoFrame]
    /\ status' = [status EXCEPT ![Caller] = "none"]
    /\ UNCHANGED <<cmr, host, out, probe>>

(* ------------------------------------------------------------------ *)
(* Initial state: the instance as effectCreateInstance leaves it with *)
(* the parameters at their defaults and no data file                  *)
(* ------------------------------------------------------------------ *)
DefaultParams ==
    [dataFile |-> MissingFile,
     renderSize |-> <<DefaultWidth, DefaultHeight>>,
     fontFamily |-> "Sans",
     fontSize |-> 16,
     bgColor |-> DefaultColorBg,
     userColor |-> DefaultColorUser,
     textColor |-> DefaultColorText,
     fadeInTime |-> DefaultFadeInSec * TicksPerSec,
     holdTime |-> DefaultHoldSec * TicksPerSec,
     fadeOutTime |-> DefaultFadeOutSec * TicksPerSec]

InitCmr ==
    /\ m_messages = <<>>
    /\ m_surface = NULL /\ m_context = NULL /\ m_layout = NULL
    /\ m_width = DefaultWidth /\ m_height = DefaultHeight /\ m_margin = DefaultMargin
    /\ m_color_bg = DefaultColorBg
    /\ m_color_user = DefaultColorUser
    /\ m_color_text = DefaultColorText
    /\ m_fade_in_time = DefaultFadeInSec * TicksPerSec
    /\ m_hold_time = DefaultHoldSec * TicksPerSec
    /\ m_fade_out_time = DefaultFadeOutSec * TicksPerSec

InitHost ==
    /\ mutex = [owner |-> {}, count |-> 0]
    /\ needReconfig = FALSE
    /\ params = DefaultParams
    /\ pc = [t \in Threads |-> "idle"]
    /\ frame = [t \in Threads |-> NoFrame]
    /\ out = [t \in Threads |-> NULL]
    /\ status = [t \in Threads |-> "none"]

Init == InitCmr /\ InitHost /\ probe = NULL

NextCmr ==
    \/ CallSetWidth \/ CallSetHeight \/ CallSetMargin
    \/ CallSetColorBackground \/ CallSetColorUser \/ CallSetColorText
    \/ CallSetFadeInTime(FadeInPair) \/ CallSetHoldTime(HoldPair)
    \/ CallSetFadeOutTime(FadeOutPair)
    \/ CallSetMessages(ShortFiles)
    \/ CallRender
    \/ RenderDraw(Caller) \/ RenderFinish(Caller)
    \/ CallReturn

SpecCmr == Init /\ [][NextCmr]_vars
(* ------------------------------------------------------------------ *)
(* The OpenFX instance driven by the host's threads (specification    *)
(* Spec)                                                              *)
(* ------------------------------------------------------------------ *)
(* the chat logs the host's dataFile parameter may name *)
JunkStampNode == Node(Attr(0, TRUE), "a", 1)
HostFiles ==
    {MissingFile,
     File("ok", <<Node(Attr(1, FALSE), "a", 1), Node(Attr(0, FALSE), "a", 1)>>),
     File("malformed", <<JunkStampNode>>)}

(* the values a user edit may give each declared parameter *)
ParamChoices ==
    [dataFile |-> HostFiles,
     renderSize |-> {<<DefaultWidth, DefaultHeight>>, <<800, 480>>},
     fontFamily |-> {"Sans"},
     fontSize |-> {16},
     bgColor |-> {DefaultColorBg},
     userColor |-> {DefaultColorUser},
     textColor |-> {DefaultColorText},
     fadeInTime |-> {DefaultFadeInSec * TicksPerSec},
     holdTime |-> {DefaultHoldSec * TicksPerSec},
     fadeOutTime |-> {DefaultFadeOutSec * TicksPerSec}]
ParamNames == DOMAIN ParamChoices

(* the times the host asks frames for *)
HostTimes == {0, MaxTime}
ImageKinds == {"byte_rgba", "unsuitable", "absent"}

(* OfxRectI *)
Rect(x1, y1, x2, y2) == [x1 |-> x1, y1 |-> y1, x2 |-> x2, y2 |-> y2]
Max(a, b) == IF a >= b THEN a ELSE b
Min(a, b) == IF a <= b THEN a ELSE b

(* clipRectI that leaves the right edge alone *)
clipRectINoRight(r1, r2) ==
    [x1 |-> Max(r1.x1, r2.x1), x2 |-> r1.x2,
     y1 |-> Max(r1.y1, r2.y1), y2 |-> Min(r1.y2, r2.y2)]
(* clipRectI(r1, r2): the value it leaves in r1 *)
clipRectI(r1, r2) ==
    [x1 |-> Max(r1.x1, r2.x1), x2 |-> Min(r1.x2, r2.x2),
     y1 |-> Max(r1.y1, r2.y1), y2 |-> Min(r1.y2, r2.y2)]

(* bytes of a pixel, in both buffers: the "4 *" of the offsets *)
BytesPerPixel == 4
Channels == 0..(BytesPerPixel - 1)

(* kOfxImagePropBounds of the output image, and the render windows the   *)
(* host asks for inside it (kOfxImageEffectPropRenderWindow)             *)
HostBounds == Rect(0, 0, 800, 480)
HostWindows == {Rect(0, 0, 2, 2)}

(* kOfxImagePropRowBytes of an image with these bounds *)
RowBytes(rOut) == (rOut.x2 - rOut.x1) * BytesPerPixel
(* the offset from out_data of the first byte of pixel (x, y) *)
OutOfs(stride, x, y) == y * stride + BytesPerPixel * x

(* The part of the output buffer the model keeps: the bytes of the     *)
(* pixels of the render window and of the ring of pixels around it,    *)
(* as far as they are in the image.                                    *)
KeptPixels(window, rOut) ==
    (Max(window.x1 - 1, rOut.x1)..Min(window.x2, rOut.x2 - 1))
        \X (Max(window.y1 - 1, rOut.y1)..Min(window.y2, rOut.y2 - 1))
KeptBytes(window, rOut) ==
    {OutOfs(RowBytes(rOut), p[1], p[2]) + k : p \in KeptPixels(window, rOut),
                                               k \in Channels}
(* what the host left in the byte at offset a of the output buffer *)
HostByte(a) == -(a + 1)
(* the byte at offset a of the surface's data: each one its own value *)
SurfaceByte(a) == a + 1
(* what a read outside the surface's data may give *)
JunkBytes == {0, 255}

(* memset(&out_data[ofs], 0x00, (rRender.x2 - rRender.x1) * 4) for each *)
(* row of the render window                                             *)
ClearTarget(mem, r, stride) ==
    [a \in DOMAIN mem |->
        IF \E y \in r.y1..(r.y2 - 1) :
              /\ OutOfs(stride, r.x1, y) <= a
              /\ a < OutOfs(stride, r.x1, y) + (r.x2 - r.x1) * BytesPerPixel
        THEN 0 ELSE mem[a]]

(* out_data[out_ofs+0] = in_data[in_ofs+2]; +1 = +1; +2 = +0; +3 = +3 *)
SourceChannel(k) == IF k = 0 THEN 2 ELSE IF k = 2 THEN 0 ELSE k

(* in_data += (h - rRender.y1 - 1) * in_stride: the row in_data starts at *)
FirstSourceRow(h, r) == h - r.y1 - 1

(* The byte moves of the copy loops: <<dst, src>> for the byte at offset *)
(* src of the surface's data stored at offset dst of the output buffer.  *)
(* in_data starts at row FirstSourceRow and goes back one stride a row,  *)
(* out_data starts at row rRender.y1 and goes forward one stride a row;  *)
(* in_ofs and out_ofs advance together by 4 a pixel.                     *)
CopyMoves(r, h, in_stride, out_stride) ==
    {<<(r.y1 * out_stride + r.x1 * BytesPerPixel) + (y - r.y1) * out_stride
          + (x - r.x1) * BytesPerPixel + k,
       (FirstSourceRow(h, r) * in_stride + r.x1 * BytesPerPixel)
          - (y - r.y1) * in_stride
          + (x - r.x1) * BytesPerPixel + SourceChannel(k)>> :
        y \in r.y1..(r.y2 - 1), x \in r.x1..(r.x2 - 1), k \in Channels}

(* the process dies (a fault on a wild read): every thread stops *)
Crash == pc' = [t \in Threads |-> "crashed"]

(* a lock that never waits *)
MutexAvailableAlways(t) == TRUE
(* std::recursive_mutex::lock() returns when no other thread owns the mutex *)
MutexAvailable(t) == mutex.owner \subseteq {t}

(* mutexLock *)
MutexLock(t) ==
    /\ MutexAvailable(t)
    /\ mutex' = [owner |-> {t}, count |-> mutex.count + 1]

(* mutexUnLock *)
MutexUnLock(t) ==
    mutex' = IF mutex.count <= 1
             THEN [owner |-> {}, count |-> 0]
             ELSE [mutex EXCEPT !.count = @ - 1]

Goto(t, label) == pc' = [pc EXCEPT ![t] = label]
Finish(t, code) ==
    /\ pc' = [pc EXCEPT ![t] = "done"]
    /\ status' = [status EXCEPT ![t] = code]

(* effectInstanceChanged for a user edit of the parameter `name`, which *)
(* the host has just given the value `value`                            *)
UserEdit(t) ==
    /\ pc[t] = "idle"
    /\ \E name \in ParamNames : \E value \in ParamChoices[name] :
          /\ params' = [params EXCEPT ![name] = value]
          /\ IF name = "dataFile"
             THEN (* doReloadMessages: paramGetValue(dataFileParam) *)
                  /\ frame' = [frame EXCEPT ![t].file = value,
                                            ![t].action = "InstanceChanged"]
                  /\ Goto(t, "rl_lock")
                  /\ UNCHANGED <<needReconfig, status>>
             ELSE /\ needReconfig' = TRUE
                  /\ Finish(t, "OK")
                  /\ frame' = [frame EXCEPT ![t].action = "InstanceChanged"]
    /\ UNCHANGED <<cmr, mutex, out, probe>>

(* doReloadMessages: mutexLock *)
ReloadLock(t) ==
    /\ pc[t] = "rl_lock"
    /\ MutexLock(t)
    /\ Goto(t, "rl_set")
    /\ UNCHANGED <<cmr, needReconfig, params, frame, out, status, probe>>

(* doReloadMessages: the try block and its catch *)
ReloadSet(t) ==
    /\ pc[t] = "rl_set"
    /\ \/ \E rv \in loadFromFile(frame[t].file) : SetMessages(rv)
       \/ (* loadFromFile threw (std::bad_alloc): setMessages({}) *)
          SetMessages(<<>>)
    /\ Goto(t, "rl_unlock")
    /\ UNCHANGED <<gfx, dims, colors, timing, host, frame, out, status, probe>>

(* doReloadMessages: mutexUnLock, and the return of effectInstanceChanged *)
ReloadUnlock(t) ==
    /\ pc[t] = "rl_unlock"
    /\ MutexUnLock(t)
    /\ Finish(t, "OK")
    /\ UNCHANGED <<cmr, needReconfig, params, frame, out, probe>>

(* effectEndInstanceChanged *)
EndInstanceChanged(t) ==
    /\ pc[t] = "idle"
    /\ IF needReconfig
       THEN Goto(t, "rc_lock") /\ UNCHANGED status
       ELSE Finish(t, "ReplyDefault")
    /\ frame' = [frame EXCEPT ![t].action = "EndInstanceChanged"]
    /\ UNCHANGED <<cmr, host, out, probe>>

(* doReconfigure: mutexLock *)
ReconfigureLock(t) ==
    /\ pc[t] = "rc_lock"
    /\ MutexLock(t)
    /\ Goto(t, "rc_width")
    /\ UNCHANGED <<cmr, needReconfig, params, frame, out, status, probe>>

(* doReconfigure: paramGetValue(renderSizeParam); setWidth *)
ReconfigureWidth(t) ==
    /\ pc[t] = "rc_width"
    /\ SetWidth(params.renderSize[1])
    /\ frame' = [frame EXCEPT ![t].data = params.renderSize[2]]
    /\ Goto(t, "rc_height")
    /\ UNCHANGED <<m_messages, m_height, m_margin, colors, timing, host, out,
                   status, probe>>

(* doReconfigure: setHeight *)
ReconfigureHeight(t) ==
    /\ pc[t] = "rc_height"
    /\ SetHeight(frame[t].data)
    /\ Goto(t, "rc_colors")
    /\ UNCHANGED <<m_messages, m_width, m_margin, colors, timing, host, frame,
                   out, status, probe>>

(* doReconfigure: the three colours *)
ReconfigureColors(t) ==
    /\ pc[t] = "rc_colors"
    /\ SetColorBackground(params.bgColor)
    /\ SetColorUser(params.userColor)
    /\ SetColorText(params.textColor)
    /\ Goto(t, "rc_timing")
    /\ UNCHANGED <<m_messages, gfx, dims, timing, host, frame, out, status, probe>>

(* doReconfigure: the three times *)
ReconfigureTiming(t) ==
    /\ pc[t] = "rc_timing"
    /\ SetFadeInTime(params.fadeInTime)
    /\ SetHoldTime(params.holdTime)
    /\ SetFadeOutTime(params.fadeOutTime)
    /\ Goto(t, "rc_unlock")
    /\ UNCHANGED <<m_messages, gfx, dims, colors, host, frame, out, status, probe>>

(* doReconfigure: mutexUnLock *)
ReconfigureUnlock(t) ==
    /\ pc[t] = "rc_unlock"
    /\ MutexUnLock(t)
    /\ Goto(t, "rc_clear")
    /\ UNCHANGED <<cmr, needReconfig, params, frame, out, status, probe>>

(* effectEndInstanceChanged without "priv->needReconfig = false" *)
ReconfigureKeepsPending(t) ==
    /\ pc[t] = "rc_clear"
    /\ Finish(t, "OK")
    /\ UNCHANGED <<cmr, host, frame, out, probe>>
(* effectEndInstanceChanged: priv->needReconfig = false; return kOfxStatOK *)
ReconfigureClear(t) ==
    /\ pc[t] = "rc_clear"
    /\ needReconfig' = FALSE
    /\ Finish(t, "OK")
    /\ UNCHANGED <<cmr, mutex, params, frame, out, probe>>

(* effectRender up to the lock: clipGetImage, the image checks, the clip  *)
(* of the render window and the clearing of the render target            *)
effectRenderStart(t, times, windows) ==
    /\ pc[t] = "idle"
    /\ \E time \in times : \E image \in ImageKinds : \E window \in windows :
          \/ (* throw NoImageEx(); caught: abort(effect) decides the status *)
             /\ image \in {"unsuitable", "absent"}
             /\ \E aborted \in BOOLEAN :
                   Finish(t, IF aborted THEN "OK" ELSE "Failed")
             /\ frame' = [frame EXCEPT ![t].raised = "NoImageEx",
                                       ![t].action = "Render"]
             /\ UNCHANGED out
          \/ (* no image: outImgProp stays 0, propGetString leaves str *)
             (* unset and strcmp reads through it                      *)
             /\ image = "absent"
             /\ Crash
             /\ frame' = [frame EXCEPT ![t].action = "Render"]
             /\ UNCHANGED <<out, status>>
          \/ /\ image = "byte_rgba"
             /\ LET rOut == HostBounds
                    rRender == clipRectI(window, rOut)
                    stale == [a \in KeptBytes(window, rOut) |-> HostByte(a)]
                IN out' = [out EXCEPT ![t] =
                              [rOut |-> rOut, asked |-> window,
                               window |-> rRender, rRender |-> rRender,
                               out_stride |-> RowBytes(rOut),
                               mem |-> ClearTarget(stale, rRender, RowBytes(rOut)),
                               copied |-> FALSE, written |-> {}, reads |-> {}]]
             /\ frame' = [frame EXCEPT ![t].time = time, ![t].action = "Render"]
             /\ Goto(t, "rn_lock")
             /\ UNCHANGED status
    /\ UNCHANGED <<cmr, host, probe>>

RenderStart(t) == effectRenderStart(t, HostTimes, HostWindows)

(* effectRender: mutexLock *)
RenderLock(t) ==
    /\ pc[t] = "rn_lock"
    /\ MutexLock(t)
    /\ Goto(t, "rn_enter")
    /\ UNCHANGED <<cmr, needReconfig, params, frame, out, status, probe>>

(* effectRender: int h = priv->cmr.render(time / priv->framerate) *)
RenderEnter(t) ==
    /\ pc[t] = "rn_enter"
    /\ RenderBegin(t, frame[t].time)

(* effectRender: the copy to the render target. A read outside the     *)
(* surface's data either ends the process or gives some byte.          *)
RenderCopy(t) ==
    /\ pc[t] = "rn_ret"
    /\ IF frame[t].ret > 0
       THEN LET h == frame[t].ret
                rIn == Rect(0, 0, m_width, h)
                r == clipRectI(out[t].rRender, rIn)
                in_stride == m_surface.w * BytesPerPixel
                moves == CopyMoves(r, h, in_stride, out[t].out_stride)
                inside(a) == 0 <= a /\ a < in_stride * m_surface.h
                stored(junk) ==
                    [a \in DOMAIN out[t].mem |->
                        IF \E m \in moves : m[1] = a
                        THEN LET m == CHOOSE n \in moves : n[1] = a
                             IN IF inside(m[2]) THEN SurfaceByte(m[2]) ELSE junk
                        ELSE out[t].mem[a]]
                done(junk) ==
                    /\ out' = [out EXCEPT ![t].rRender = r,
                                          ![t].mem = stored(junk),
                                          ![t].copied = TRUE,
                                          ![t].written = {m[1] : m \in moves},
                                          ![t].reads = {m[2] : m \in moves}]
                    /\ Goto(t, "rn_unlock")
            IN IF \A m \in moves : inside(m[2])
               THEN done(0)
               ELSE \/ \E junk \in JunkBytes : done(junk)
                    \/ /\ Crash
                       /\ out' = [out EXCEPT ![t].rRender = r,
                                             ![t].reads = {m[2] : m \in moves}]
       ELSE Goto(t, "rn_unlock") /\ UNCHANGED out
    /\ UNCHANGED <<cmr, host, frame, status, probe>>

(* effectRender: mutexUnLock, clipReleaseImage, return status *)
RenderUnlock(t) ==
    /\ pc[t] = "rn_unlock"
    /\ MutexUnLock(t)
    /\ Finish(t, "OK")
    /\ out' = [out EXCEPT ![t] = NULL]
    /\ UNCHANGED <<cmr, needReconfig, params, frame, probe>>

(* ofxMain for an action that has no entry in _apiHandlers *)
OtherAction(t) ==
    /\ pc[t] = "idle"
    /\ Finish(t, "ReplyDefault")
    /\ frame' = [frame EXCEPT ![t].action = "Other"]
    /\ UNCHANGED <<cmr, host, out, probe>>

(* the action has returned to the host *)
Return(t) ==
    /\ pc[t] = "done"
    /\ pc' = [pc EXCEPT ![t] = "idle"]
    /\ frame' = [frame EXCEPT ![t] = NoFrame]
    /\ out' = [out EXCEPT ![t] = NULL]
    /\ status' = [status EXCEPT ![t] = "none"]
    /\ UNCHANGED <<cmr, host, probe>>

Next ==
    \E t \in Threads :
        \/ UserEdit(t)
        \/ ReloadLock(t) \/ ReloadSet(t) \/ ReloadUnlock(t)
        \/ EndInstanceChanged(t)
        \/ ReconfigureLock(t) \/ ReconfigureWidth(t) \/ ReconfigureHeight(t)
        \/ ReconfigureColors(t) \/ ReconfigureTiming(t)
        \/ ReconfigureUnlock(t) \/ ReconfigureClear(t)
        \/ RenderStart(t) \/ RenderLock(t) \/ RenderEnter(t)
        \/ RenderDraw(t) \/ RenderFinish(t)
        \/ RenderCopy(t) \/ RenderUnlock(t)
        \/ OtherAction(t)
        \/ Return(t)

Spec == Init /\ [][Next]_vars

(* The store, the timing and the query alone: sizes and colours stay at  *)
(* their defaults, the logs and the timing values range wider.            *)
NextQuery ==
    \/ CallSetFadeInTime(FadeInTimes) \/ CallSetHoldTime(HoldTimes)
    \/ CallSetFadeOutTime(FadeOutTimes)
    \/ CallSetMessages(GoodFiles)
    \/ CallRender
    \/ RenderDraw(Caller) \/ RenderFinish(Caller)
    \/ CallReturn

SpecQuery == Init /\ [][NextQuery]_vars
(* ------------------------------------------------------------------ *)
(* One log rendered over 25 seconds (specification SpecRound): the    *)
(* renderer holds the entries (0.0, "a", "hi") and (5.0, "b", "yo"),  *)
(* loaded from a file that lists them in either order, and the        *)
(* default times of 1, 15 and 1 seconds.                              *)
(* ------------------------------------------------------------------ *)
RoundNodeA == Node(Attr(0, FALSE), "a", 1)
RoundNodeB == Node(Attr(5 * TicksPerSec, FALSE), "b", 1)
RoundFiles == {File("ok", <<RoundNodeA, RoundNodeB>>),
               File("ok", <<RoundNodeB, RoundNodeA>>)}
RoundTimes == 0..(25 * TicksPerSec)

InitRound ==
    /\ InitHost
    /\ probe = NULL
    /\ m_surface = NULL /\ m_context = NULL /\ m_layout = NULL
    /\ m_width = DefaultWidth /\ m_height = DefaultHeight /\ m_margin = DefaultMargin
    /\ m_color_bg = DefaultColorBg
    /\ m_color_user = DefaultColorUser
    /\ m_color_text = DefaultColorText
    /\ m_fade_in_time = DefaultFadeInSec * TicksPerSec
    /\ m_hold_time = DefaultHoldSec * TicksPerSec
    /\ m_fade_out_time = DefaultFadeOutSec * TicksPerSec
    /\ \E file \in RoundFiles : m_messages \in loadFromFile(file)

NextRound ==
    \/ CallRenderAt(RoundTimes)
    \/ RenderDraw(Caller) \/ RenderFinish(Caller)
    \/ CallReturn

SpecRound == InitRound /\ [][NextRound]_vars
(* ------------------------------------------------------------------ *)
(* effectRender on one thread, byte by byte (specification SpecCopy): *)
(* the instance is created for a render size and a chat log, then the *)
(* host asks for frames through render windows that lie on the edges  *)
(* of what is painted.                                                *)
(* ------------------------------------------------------------------ *)
(* the least height renderSize is declared with *)
MinRenderHeight == 100
CopyHeights == {MinRenderHeight, DefaultHeight}
CopyNodes == {Node(Attr(v, FALSE), "a", 1) : v \in {0, 1}}
CopyFiles == {File("ok", nodes) : nodes \in SeqsUpTo(CopyNodes, MaxMsgs)}
CopyTimes == {0, 1, MaxTime}
CopyWindows ==
    {Rect(0, 0, 2, 2),
     Rect(DefaultWidth - 1, 0, DefaultWidth + 1, 2),
     Rect(DefaultWidth + 60, 0, DefaultWidth + 62, 2),
     Rect(0, 49, 2, 51),
     Rect(0, 400, 2, 402)}

(* effectCreateInstance: doReconfigure and doReloadMessages with the *)
(* values the host holds for the parameters                          *)
InitCopy ==
    /\ mutex = [owner |-> {}, count |-> 0]
    /\ needReconfig = FALSE
    /\ \E height \in CopyHeights : \E file \in CopyFiles :
          params = [DefaultParams EXCEPT !.renderSize = <<DefaultWidth, height>>,
                                         !.dataFile = file]
    /\ pc = [t \in Threads |-> "idle"]
    /\ frame = [t \in Threads |-> NoFrame]
    /\ out = [t \in Threads |-> NULL]
    /\ status = [t \in Threads |-> "none"]
    /\ probe = NULL
    /\ m_surface = NULL /\ m_context = NULL /\ m_layout = NULL
    /\ m_width = params.renderSize[1]
    /\ m_height = params.renderSize[2]
    /\ m_margin = DefaultMargin
    /\ m_color_bg = params.bgColor
    /\ m_color_user = params.userColor
    /\ m_color_text = params.textColor
    /\ m_fade_in_time = params.fadeInTime
    /\ m_hold_time = params.holdTime
    /\ m_fade_out_time = params.fadeOutTime
    /\ m_messages \in loadFromFile(params.dataFile)

NextCopy ==
    \/ effectRenderStart(Caller, CopyTimes, CopyWindows)
    \/ RenderLock(Caller) \/ RenderEnter(Caller)
    \/ RenderDraw(Caller) \/ RenderFinish(Caller)
    \/ RenderCopy(Caller) \/ RenderUnlock(Caller)
    \/ Return(Caller)

SpecCopy == InitCopy /\ [][NextCopy]_vars
(* ------------------------------------------------------------------ *)
(* The alpha curve on its own (specification SpecAlpha): the timing   *)
(* and a message time are drawn at the start, then the curve is       *)
(* sampled at one time after another; probe keeps the last two        *)
(* samples.                                                           *)
(* ------------------------------------------------------------------ *)
AlphaNow(t0, time) == Alpha(t0, time, m_fade_in_time, m_hold_time, m_fade_out_time)

InitAlpha ==
    /\ InitHost
    /\ m_messages = <<>>
    /\ m_surface = NULL /\ m_context = NULL /\ m_layout = NULL
    /\ m_width = DefaultWidth /\ m_height = DefaultHeight /\ m_margin = DefaultMargin
    /\ m_color_bg = DefaultColorBg
    /\ m_color_user = DefaultColorUser
    /\ m_color_text = DefaultColorText
    /\ m_fade_in_time \in Durations
    /\ m_hold_time \in Durations
    /\ m_fade_out_time \in Durations
    /\ \E t0 \in Stamps :
          probe = [t0 |-> t0, t1 |-> t0, a1 |-> AlphaNow(t0, t0),
                   t2 |-> t0, a2 |-> AlphaNow(t0, t0)]

AlphaSample ==
    \E time \in probe.t0..(probe.t0 + m_fade_in_time + m_hold_time + m_fade_out_time) :
        /\ probe' = [probe EXCEPT !.t1 = probe.t2, !.a1 = probe.a2,
                                  !.t2 = time, !.a2 = AlphaNow(probe.t0, time)]
        /\ UNCHANGED <<cmr, host, calls>>

SpecAlpha == InitAlpha /\ [][AlphaSample]_vars

(* ================================================================== *)
(* Properties                                                         *)
(* ================================================================== *)
Critical ==
    {"rl_set", "rl_unlock",
     "rc_width", "rc_height", "rc_colors", "rc_timing", "rc_unlock",
     "rn_enter", "rn_draw", "rn_ret", "rn_unlock"}
InCritical(t) == pc[t] \in Critical
Waiting(t) == pc[t] \in {"rl_lock", "rc_lock", "rn_lock"}
MutualExclusion ==
    \A t, u \in Threads : t # u => ~(InCritical(t) /\ InCritical(u))
RenderUndisturbed ==
    \A t \in Threads :
        pc[t] \in {"rn_enter", "rn_draw", "rn_ret"} =>
            UNCHANGED <<m_messages, dims, colors, timing>>

(* C1: under Spec no two threads are at once between a mutexLock and its *)
(* mutexUnLock in doReloadMessages, doReconfigure and effectRender, and  *)
(* while a thread is inside render or its copy-out no step changes the   *)
(* message sequence or the configuration.                                *)
C1_Serialized == []MutualExclusion /\ [][RenderUndisturbed]_vars
(* a thread is drawing while another waits for the lock *)
C1_Witness ==
    \E t, u \in Threads : t # u /\ pc[t] = "rn_draw" /\ Waiting(u)

(* C2: in every reachable state of Spec the renderer's message sequence *)
(* is in ascending order of timestamp.                                  *)
C2_StoreSorted == IsSorted(m_messages)
(* a reload has stored two entries from a log that lists them out of order *)
C2_Witness ==
    \E t \in Threads :
        /\ pc[t] = "rl_unlock"
        /\ frame[t].file.status = "ok"
        /\ ~IsSorted(ParseNodes(frame[t].file.nodes))
        /\ Len(m_messages) = Len(frame[t].file.nodes)

(* the entries of the store whose timestamp is in [time - window, time] *)
BruteActive(time) ==
    {i \in 1..Len(m_messages) :
        /\ TimeLo(time, m_fade_in_time, m_hold_time, m_fade_out_time)
              <= m_messages[i].time
        /\ m_messages[i].time <= time}

(* C3: the range [first, last) that render computes holds exactly the *)
(* entries a linear scan finds in [time - window, time].              *)
C3_ActiveRangeExact ==
    \A t \in Threads :
        pc[t] \in {"rn_draw", "rn_ret"} =>
            (frame[t].first)..(frame[t].last - 1) = BruteActive(frame[t].time)
(* the range holds an entry on each bound and leaves an older entry out *)
C3_Witness ==
    /\ pc[Caller] = "rn_draw"
    /\ Len(m_messages) = 3
    /\ frame[Caller].first = 2
    /\ frame[Caller].last = 4
    /\ m_messages[1].time < m_messages[2].time
    /\ m_messages[2].time =
          TimeLo(frame[Caller].time, m_fade_in_time, m_hold_time, m_fade_out_time)
    /\ m_messages[3].time = frame[Caller].time

(* C4: the sampled alpha is 0 at t0, 1 at t0 + fadeIn and throughout the *)
(* hold, does not fall between two samples of the fade-in and does not   *)
(* rise between two samples of the fade-out.                             *)
C4_AlphaCurve ==
    probe # NULL =>
        LET t0 == probe.t0
            tHold == t0 + m_fade_in_time
            tFout == tHold + m_hold_time
            tEnd == tFout + m_fade_out_time
        IN /\ probe.t2 = t0 => FracEQ(probe.a2, Zero)
           /\ probe.t2 = tHold => FracEQ(probe.a2, One)
           /\ (tHold <= probe.t2 /\ probe.t2 <= tFout) => FracEQ(probe.a2, One)
           /\ (t0 <= probe.t1 /\ probe.t1 <= probe.t2 /\ probe.t2 <= tHold)
                 => FracLE(probe.a1, probe.a2)
           /\ (tFout <= probe.t1 /\ probe.t1 <= probe.t2 /\ probe.t2 <= tEnd)
                 => FracLE(probe.a2, probe.a1)
(* two samples of the fade-out, the later one strictly lower and not yet 0 *)
C4_Witness ==
    /\ probe # NULL
    /\ probe.t0 + m_fade_in_time + m_hold_time <= probe.t1
    /\ probe.t1 < probe.t2
    /\ FracLT(probe.a2, probe.a1)
    /\ FracLT(Zero, probe.a2)

(* C5: the opacities a drawMessage hands to the drawing calls are in    *)
(* range: the text alpha in (1/255, 1], the background alpha in [0, 1], *)
(* the alpha byte of the user name in 0..255.                           *)
C5_OpacityInRange ==
    \A t \in Threads :
        frame[t].drawn # NULL =>
            LET a == frame[t].drawn
            IN /\ FracLT(Frac(1, AlphaSkipDen), a.text)
               /\ FracLE(a.text, One)
               /\ FracLE(Zero, a.bg) /\ FracLE(a.bg, One)
               /\ a.user \in 0..255
(* a message is drawn with an alpha just above the threshold *)
C5_Witness ==
    /\ frame[Caller].drawn # NULL
    /\ FracLT(frame[Caller].drawn.text, Frac(1, 100))

(* C6: after a reload of a log that fails to parse the store is empty. *)
C6_FailedLoadEmptiesStore ==
    \A t \in Threads :
        (pc[t] = "rl_unlock" /\ FailsToParse(frame[t].file)) => m_messages = <<>>

(* C7: a render whose active range is empty returns 0 and leaves the *)
(* surface, the context and the layout as they were.                 *)
C7_EmptyRenderStep ==
    (/\ pc[Caller] = "idle"
     /\ pc'[Caller] \in {"rn_draw", "rn_ret"}
     /\ BruteActive(frame'[Caller].time) = {})
        => (/\ pc'[Caller] = "rn_ret"
            /\ frame'[Caller].ret = 0
            /\ UNCHANGED gfx)
C7_EmptyRenderNoTouch == [][C7_EmptyRenderStep]_vars
(* the store was emptied after a painting render: render returned 0 and *)
(* the surface still holds what was painted                             *)
C7_Witness ==
    /\ pc[Caller] = "rn_ret"
    /\ frame[Caller].ret = 0
    /\ m_messages = <<>>
    /\ m_surface # NULL
    /\ m_surface.pix # {}

(* C8: a step that changes width, height or margin leaves surface,      *)
(* context and layout released; a step that changes a colour or a time  *)
(* leaves them as they were; a render with a non-empty range that gets  *)
(* past drawInit (the allocation did not throw) has all three, made for *)
(* the configuration in force.                                          *)
C8_SetterStep ==
    /\ (dims' # dims) =>
          (m_surface' = NULL /\ m_context' = NULL /\ m_layout' = NULL)
    /\ (colors' # colors \/ timing' # timing) => UNCHANGED gfx
    /\ (/\ pc[Caller] = "idle"
        /\ pc'[Caller] \in {"rn_draw", "rn_ret"}
        /\ BruteActive(frame'[Caller].time) # {})
          => /\ pc'[Caller] = "rn_draw"
             /\ m_surface' # NULL /\ m_context' # NULL /\ m_layout' # NULL
             /\ m_surface'.w = m_width /\ m_surface'.h = m_height
             /\ m_layout'.width = m_width - 2 * m_margin
C8_SettersAndSurface == [][C8_SetterStep]_vars
(* a surface exists for a width and a margin that were both changed *)
C8_Witness ==
    /\ m_surface # NULL
    /\ m_width # DefaultWidth
    /\ m_margin # DefaultMargin
    /\ m_layout.width = m_width - 2 * m_margin

(* C9: whenever a surface exists its size is the configured width and *)
(* height.                                                            *)
C9_SurfaceMatchesConfig ==
    m_surface # NULL => (m_surface.w = m_width /\ m_surface.h = m_height)
(* a render has completed after both width and height were changed *)
C9_Witness ==
    /\ pc[Caller] = "rn_ret"
    /\ frame[Caller].ret > 0
    /\ m_surface.w # DefaultWidth
    /\ m_surface.h # DefaultHeight

(* C10: when render is about to draw its first message nothing is *)
(* painted on the surface.                                        *)
C10_PaintStartsClear ==
    \A t \in Threads :
        (pc[t] = "rn_draw" /\ frame[t].i = frame[t].first) => m_surface.pix = {}
(* the surface was reused and held the painting of an earlier render *)
C10_Witness ==
    /\ pc[Caller] = "rn_draw"
    /\ frame[Caller].i = frame[Caller].first
    /\ frame[Caller].reused

(* the pixels of a rectangle *)
PixelsOf(r) == (r.x1..(r.x2 - 1)) \X (r.y1..(r.y2 - 1))
(* pixel p lies in the painted rectangle [0, width) x [0, h) *)
InPainted(p, width, h) == 0 <= p[1] /\ p[1] < width /\ 0 <= p[2] /\ p[2] < h
(* thread t has the copy-out step of effectRender behind it *)
AfterCopy(t) == pc[t] = "rn_unlock" /\ out[t] # NULL

(* C11: when no pixel of the render window (as clipped to the image)  *)
(* lies in the painted rectangle [0, width) x [0, h), the copy-out    *)
(* stores nothing: every byte of the window still holds the 0 of the  *)
(* clear and every byte around it what the host left there.           *)
C11_NoWriteOutsidePainted ==
    \A t \in Threads :
        (/\ AfterCopy(t)
         /\ \A p \in PixelsOf(out[t].window) :
                ~InPainted(p, m_width, frame[t].ret))
            => /\ out[t].written = {}
               /\ \A p \in KeptPixels(out[t].asked, out[t].rOut) :
                     \A k \in Channels :
                        LET a == OutOfs(out[t].out_stride, p[1], p[2]) + k
                        IN out[t].mem[a] =
                             IF p \in PixelsOf(out[t].window) THEN 0
                             ELSE HostByte(a)
(* the copy-out ran for a positive height with a window of four pixels *)
(* that lies beside or above what is painted                           *)
C11_Witness ==
    /\ AfterCopy(Caller)
    /\ frame[Caller].ret > 0
    /\ out[Caller].copied
    /\ Cardinality(PixelsOf(out[Caller].window)) = 4
    /\ \A p \in PixelsOf(out[Caller].window) :
          ~InPainted(p, m_width, frame[Caller].ret)

(* C12: after the copy-out every pixel (x, y) of the render window that *)
(* lies in [0, width) x [0, h) holds the pixel of row h - y - 1, column *)
(* x of the surface with channels 0 and 2 exchanged, and every other    *)
(* pixel of the window holds 0.                                         *)
C12_CopyMapsPixels ==
    \A t \in Threads :
        (AfterCopy(t) /\ frame[t].ret > 0) =>
            \A p \in PixelsOf(out[t].window) : \A k \in Channels :
                LET x == p[1]
                    y == p[2]
                    row == frame[t].ret - y - 1
                    from == <<2, 1, 0, 3>>[k + 1]
                    a == OutOfs(out[t].out_stride, x, y) + k
                IN IF InPainted(p, m_width, frame[t].ret)
                   THEN /\ row < m_surface.h
                        /\ out[t].mem[a] =
                              SurfaceByte((row * m_surface.w + x) * BytesPerPixel + from)
                   ELSE out[t].mem[a] = 0

(* the renderer configuration doReconfigure sets *)
config == <<m_width, m_height, m_color_bg, m_color_user, m_color_text,
            m_fade_in_time, m_hold_time, m_fade_out_time>>
Reconfiguring(t) ==
    /\ frame[t].action = "EndInstanceChanged"
    /\ pc[t] \in {"rc_width", "rc_height", "rc_colors", "rc_timing"}

(* what one step of thread t may do in an instance-changed or an *)
(* end-instance-changed notification                             *)
C13_EditStep(t) ==
    /\ (* the notification of a user edit starts: nothing of the renderer *)
       (* changes; an edit of dataFile goes on to reload, any other edit  *)
       (* marks the reconfiguration pending and returns                   *)
       (pc[t] = "idle" /\ frame'[t].action = "InstanceChanged") =>
          /\ UNCHANGED <<cmr, mutex>>
          /\ IF params'.dataFile # params.dataFile \/ pc'[t] = "rl_lock"
             THEN pc'[t] = "rl_lock" /\ frame'[t].file = params'.dataFile
                  /\ UNCHANGED needReconfig
             ELSE pc'[t] = "done" /\ needReconfig' /\ status'[t] = "OK"
    /\ (* the notification of an edit of dataFile returns only from the *)
       (* reload, with the store loaded from the file                   *)
       (frame[t].action = "InstanceChanged" /\ frame[t].file # NULL
            /\ pc[t] # "done" /\ pc'[t] = "done") =>
          /\ pc[t] = "rl_unlock"
          /\ m_messages \in loadFromFile(frame[t].file) \cup {<<>>}
          /\ UNCHANGED cmr
    /\ (* end of edit *)
       (pc[t] = "idle" /\ frame'[t].action = "EndInstanceChanged") =>
          /\ UNCHANGED <<cmr, host>>
          /\ IF needReconfig
             THEN pc'[t] = "rc_lock"
             ELSE pc'[t] = "done" /\ status'[t] = "ReplyDefault"
    /\ (* the reconfiguration sets each value from the parameter *)
       (pc[t] = "rc_width" /\ pc'[t] = "rc_height") => m_width' = params.renderSize[1]
    /\ (pc[t] = "rc_height" /\ pc'[t] = "rc_colors") => m_height' = frame[t].data
    /\ (pc[t] = "rc_width" /\ pc'[t] = "rc_height") => frame'[t].data = params.renderSize[2]
    /\ (pc[t] = "rc_colors" /\ pc'[t] = "rc_timing") =>
          <<m_color_bg, m_color_user, m_color_text>>'
             = <<params.bgColor, params.userColor, params.textColor>>
    /\ (pc[t] = "rc_timing" /\ pc'[t] = "rc_unlock") =>
          <<m_fade_in_time, m_hold_time, m_fade_out_time>>'
             = <<params.fadeInTime, params.holdTime, params.fadeOutTime>>
    /\ (* and it ends with the mark cleared *)
       (frame[t].action = "EndInstanceChanged" /\ pc[t] # "done"
            /\ pc'[t] = "done" /\ status'[t] = "OK") =>
          pc[t] = "rc_clear" /\ needReconfig' = FALSE

(* C13: a user edit of dataFile reloads the store before the           *)
(* notification returns; a user edit of another parameter only sets    *)
(* needReconfig; the configuration changes in no step but those of a   *)
(* doReconfigure run by an end-instance-changed with needReconfig set, *)
(* which sets every value from its parameter under one hold of the     *)
(* lock and then clears needReconfig; an end-instance-changed with     *)
(* needReconfig clear changes nothing.                                 *)
C13_EditsBatched ==
    [][/\ \A t \in Threads : C13_EditStep(t)
       /\ (config' # config => \E t \in Threads : Reconfiguring(t))
       /\ \A t \in Threads :
             /\ Reconfiguring(t) => (mutex.owner = {t} /\ mutex'.owner = {t})
             /\ pc[t] = "rc_unlock" => mutex.owner = {t}]_vars
(* an end-instance-changed has applied an edited render size and cleared *)
(* the mark                                                              *)
C13_Witness ==
    \E t \in Threads :
        /\ frame[t].action = "EndInstanceChanged"
        /\ pc[t] = "done" /\ status[t] = "OK"
        /\ ~needReconfig
        /\ <<m_width, m_height>> = params.renderSize
        /\ m_width # DefaultWidth

(* C14: a render request whose output image is missing or unsuitable  *)
(* ends with no output buffer touched and no render pass run, and     *)
(* hands kOfxStatFailed back to the host.                             *)
C14_MissingImageFails ==
    \A t \in Threads :
        /\ (pc[t] = "done" /\ frame[t].raised = "NoImageEx") =>
               /\ out[t] = NULL
               /\ frame[t].ret = 0 /\ frame[t].drawn = NULL
               /\ status[t] = "Failed"
        /\ ~(pc[t] = "crashed" /\ frame[t].action = "Render" /\ out[t] = NULL)

(* C15: every call that has come back to the host carries a status:  *)
(* kOfxStatErrMemory when std::bad_alloc was thrown in the handler,   *)
(* kOfxStatErrUnknown when another exception was, and                 *)
(* kOfxStatReplyDefault when the action has no handler.               *)
C15_ErrorsMapped ==
    \A t \in Threads :
        pc[t] = "done" =>
            /\ status[t] \in {"OK", "Failed", "ReplyDefault", "ErrMemory", "ErrUnknown"}
            /\ frame[t].raised = "bad_alloc" => status[t] = "ErrMemory"
            /\ frame[t].raised = "exception" => status[t] = "ErrUnknown"
            /\ frame[t].action = "Other" => status[t] = "ReplyDefault"
(* a render has come back with kOfxStatErrMemory after the surface *)
(* could not be allocated                                          *)
C15_Witness ==
    \E t \in Threads :
        /\ pc[t] = "done"
        /\ frame[t].action = "Render"
        /\ frame[t].raised = "bad_alloc"
        /\ status[t] = "ErrMemory"

(* C16: with the entries (0.0, "a", "hi") and (5.0, "b", "yo") and the  *)
(* times 1, 15 and 1 s, render(0.5) has only "a" in its active range,  *)
(* draws it with alpha 1/2 and returns a positive height; render(25.0) *)
(* finds no entry in [8.0, 25.0] and returns 0.                        *)
C16_RoundTrip ==
    LET f == frame[Caller]
        half == TicksPerSec \div 2
        late == 25 * TicksPerSec
    IN /\ (pc[Caller] = "rn_draw" /\ f.time = half) =>
             /\ f.first = 1 /\ f.last = 2
             /\ m_messages[1].user = "a"
             /\ f.drawn # NULL =>
                    /\ f.i = 2
                    /\ FracEQ(f.drawn.text, Frac(1, 2))
                    /\ 2 * f.th = m_fade_in_time * (LayoutHeight(m_messages[1]) + 3 * m_margin)
       /\ (pc[Caller] = "rn_ret" /\ f.time = half) =>
             /\ f.ret > 0
             /\ 2 * f.ret - (LayoutHeight(m_messages[1]) + 3 * m_margin) \in {0, 1}
             /\ f.first = 1 /\ f.last = 2
       /\ (pc[Caller] \in {"rn_draw", "rn_ret"} /\ f.time = late) =>
             /\ pc[Caller] = "rn_ret"
             /\ f.ret = 0
             /\ \A i \in 1..Len(m_messages) :
                    ~(8 * TicksPerSec <= m_messages[i].time /\ m_messages[i].time <= late)
(* render(0.5) has returned its positive height with "a" alone painted *)
C16_Witness ==
    /\ pc[Caller] = "rn_ret"
    /\ frame[Caller].time = TicksPerSec \div 2
    /\ frame[Caller].ret > 0
    /\ Cardinality(m_surface.pix) = 1
    /\ Len(m_messages) = 2

(* What one loop turn of render owes for entry i at the given time,      *)
(* stated from the entry's age dt = time - timestamp: the space it takes, *)
(* whether it is too transparent, and its share of the total (as a        *)
(* multiple of 1/m_fade_in_time).                                         *)
EntrySpace(i) == LayoutHeight(m_messages[i]) + 3 * m_margin
EntrySkipped(i, time) ==
    LET dt == time - m_messages[i].time
        over == dt - m_fade_in_time - m_hold_time
    IN IF dt < m_fade_in_time THEN AlphaSkipDen * dt <= m_fade_in_time
       ELSE IF over > 0 THEN AlphaSkipDen * (m_fade_out_time - over) <= m_fade_out_time
       ELSE FALSE
EntryShare(i, time) ==
    LET dt == time - m_messages[i].time
    IN IF EntrySkipped(i, time) THEN 0
       ELSE IF dt < m_fade_in_time THEN dt * EntrySpace(i)
       ELSE m_fade_in_time * EntrySpace(i)
RECURSIVE SharesUpTo(_, _, _)
SharesUpTo(from, to, time) ==
    IF to <= from THEN 0
    ELSE SharesUpTo(from, to - 1, time) + EntryShare(to - 1, time)

(* C17: each loop turn of render takes the next entry of the active      *)
(* range in ascending timestamp order; a too transparent entry (alpha <= *)
(* 1/255) paints nothing, leaves the cursor and the total alone; any     *)
(* other entry moves the cursor down by textHeight + 3*margin and adds   *)
(* progress * (textHeight + 3*margin) to the total, progress being alpha *)
(* during the fade-in and 1 afterwards; the value returned is the total  *)
(* rounded to the nearest integer.                                       *)
C17_DrawAccumulates ==
    [][LET f == frame[Caller]
           g == frame'[Caller]
       IN /\ (pc[Caller] = "rn_draw" /\ pc'[Caller] = "rn_draw") =>
                /\ f.first <= f.i /\ f.i < f.last /\ g.i = f.i + 1
                /\ f.i > f.first => m_messages[f.i - 1].time <= m_messages[f.i].time
                /\ IF EntrySkipped(f.i, f.time)
                   THEN /\ m_surface' = m_surface
                        /\ m_context'.ty = m_context.ty
                        /\ g.th = f.th
                        /\ g.drawn = NULL
                   ELSE /\ m_context'.ty = m_context.ty + EntrySpace(f.i)
                        /\ g.th = f.th + EntryShare(f.i, f.time)
                        /\ g.th > f.th
                        /\ \E b \in m_surface'.pix : b.y = m_context.ty
                        /\ g.drawn # NULL
                /\ g.th = SharesUpTo(f.first, g.i, f.time)
          /\ (pc[Caller] = "rn_draw" /\ pc'[Caller] = "rn_ret") =>
                /\ f.i = f.last
                /\ f.th = SharesUpTo(f.first, f.last, f.time)
                /\ 2 * f.th - m_fade_in_time <= 2 * m_fade_in_time * g.ret
                /\ 2 * m_fade_in_time * g.ret <= 2 * f.th + m_fade_in_time
      ]_vars
(* a render has returned a positive height over a range holding a too   *)
(* transparent entry, a fading-in entry and a fully shown entry         *)
C17_Witness ==
    LET f == frame[Caller]
        range == f.first..(f.last - 1)
    IN /\ pc[Caller] = "rn_ret"
       /\ f.ret > 0
       /\ \E i \in range : EntrySkipped(i, f.time)
       /\ \E i \in range : /\ ~EntrySkipped(i, f.time)
                            /\ f.time - m_messages[i].time < m_fade_in_time
       /\ \E i \in range : /\ ~EntrySkipped(i, f.time)
                            /\ f.time - m_messages[i].time >= m_fade_in_time
       /\ 2 * m_fade_in_time * f.ret - 2 * SharesUpTo(f.first, f.last, f.time)
             \in (-m_fade_in_time)..m_fade_in_time

(* C19: an operation that has left (its status is set, or the thread is *)
(* back at the host) no longer holds the instance lock, whatever its    *)
(* exit path, an error raised inside the critical section included.     *)
C19_LockReleasedOnExit ==
    \A t \in Threads : pc[t] \in {"idle", "done"} => t \notin mutex.owner

(* C18: every byte the copy-out reads lies in the surface's data: its  *)
(* row h - y - 1 is in 0 .. surface height - 1 and its column in       *)
(* 0 .. surface width - 1.                                             *)
C18_ReadsInsideSurface ==
    \A t \in Threads :
        (out[t] # NULL /\ out[t].reads # {}) =>
            \A a \in out[t].reads :
                LET in_stride == m_surface.w * BytesPerPixel
                    row == a \div in_stride
                    col == (a % in_stride) \div BytesPerPixel
                IN /\ 0 <= row /\ row < m_surface.h
                   /\ 0 <= col /\ col < m_surface.w
====
